---- MODULE Spec2Model ----
(***************************************************************************)
(* Model of the ta-site-crawler core: the durable task queue               *)
(* (internal/queue/queue.go), the worker loop (internal/crawler/crawler.go)*)
(* and the process entry point (cmd/crawler/main.go).                      *)
(***************************************************************************)
EXTENDS Integers, Sequences, FiniteSets, TLC

\* ------------------------------------------------------------------------
\* Bounds of the model
\* ------------------------------------------------------------------------
NumWorkers == 2
MaxRestarts == 1
MaxFetchCount == 2

Workers == 1..NumWorkers

\* ------------------------------------------------------------------------
\* Program constants
\* ------------------------------------------------------------------------
RootFilename == "_index"
CrawlingDir == "crawled"
OutputDir == "out"
ErrStringAlreadyInQueue == "string already in queue"
MaxInt32 == 2147483647

\* ------------------------------------------------------------------------
\* String helpers (Go strings package)
\* ------------------------------------------------------------------------
HasPrefix(s, p) == Len(s) >= Len(p) /\ SubSeq(s, 1, Len(p)) = p

HasSuffix(s, p) == Len(s) >= Len(p) /\ SubSeq(s, Len(s) - Len(p) + 1, Len(s)) = p

TrimPrefix(s, p) == IF HasPrefix(s, p) THEN SubSeq(s, Len(p) + 1, Len(s)) ELSE s

TrimSuffix(s, p) == IF HasSuffix(s, p) THEN SubSeq(s, 1, Len(s) - Len(p)) ELSE s

Contains(s, c) == \E i \in 1..Len(s) : SubSeq(s, i, i) = c

\* index of the last occurrence of the one-character string c in s, 0 if none
LastIndex(s, c) ==
    IF Contains(s, c)
    THEN CHOOSE i \in 1..Len(s) :
            /\ SubSeq(s, i, i) = c
            /\ \A j \in (i + 1)..Len(s) : SubSeq(s, j, j) # c
    ELSE 0

\* index of the first occurrence of the one-character string c in s, 0 if none
Index(s, c) ==
    IF Contains(s, c)
    THEN CHOOSE i \in 1..Len(s) :
            /\ SubSeq(s, i, i) = c
            /\ \A j \in 1..(i - 1) : SubSeq(s, j, j) # c
    ELSE 0

\* strings.TrimSpace for the space character: the part from the first to the
\* last character that is not a space
TrimSpace(s) ==
    LET solid == {i \in 1..Len(s) : SubSeq(s, i, i) # " "} IN
    IF solid = {} THEN ""
    ELSE SubSeq(s, CHOOSE i \in solid : \A j \in solid : i <= j,
                   CHOOSE i \in solid : \A j \in solid : i >= j)

UpperChars == "ABCDEFGHIJKLMNOPQRSTUVWXYZ"
LowerChars == "abcdefghijklmnopqrstuvwxyz"

ToLowerChar(c) ==
    IF Contains(UpperChars, c) THEN LET i == Index(UpperChars, c) IN SubSeq(LowerChars, i, i)
    ELSE c

ToLower(s) ==
    LET lower[i \in 0..Len(s)] ==
            IF i = 0 THEN "" ELSE lower[i - 1] \o ToLowerChar(SubSeq(s, i, i))
    IN lower[Len(s)]

\* ------------------------------------------------------------------------
\* URLs (net/url as the worker uses it, and internal/utils)
\* ------------------------------------------------------------------------
\* url.Parse: scheme "://" authority path; a string without scheme is a
\* relative reference whose whole text is the path
url_Parse(s) ==
    LET c == Index(s, ":") IN
    IF c > 1 /\ HasPrefix(SubSeq(s, c + 1, Len(s)), "//")
    THEN LET rest == SubSeq(s, c + 3, Len(s))
             sl == Index(rest, "/")
         IN [Scheme |-> ToLower(SubSeq(s, 1, c - 1)),
             Host |-> IF sl = 0 THEN rest ELSE SubSeq(rest, 1, sl - 1),
             Path |-> IF sl = 0 THEN "" ELSE SubSeq(rest, sl, Len(rest))]
    ELSE [Scheme |-> "", Host |-> "", Path |-> s]

IsAbs(u) == u.Scheme # ""

Hostname(u) ==
    LET c == Index(u.Host, ":") IN IF c = 0 THEN u.Host ELSE SubSeq(u.Host, 1, c - 1)

Port(u) ==
    LET c == Index(u.Host, ":") IN IF c = 0 THEN "" ELSE SubSeq(u.Host, c + 1, Len(u.Host))

URLString(u) ==
    IF u.Scheme = "" THEN u.Path ELSE u.Scheme \o "://" \o u.Host \o u.Path

\* (*URL).ResolveReference for the reference shapes of the modelled site:
\* absolute URLs, rooted paths, and paths relative to the base's directory
ResolveReference(base, ref) ==
    IF ref.Scheme # "" THEN ref
    ELSE IF HasPrefix(ref.Path, "/") THEN [base EXCEPT !.Path = ref.Path]
    ELSE [base EXCEPT !.Path = SubSeq(base.Path, 1, LastIndex(base.Path, "/")) \o ref.Path]

\* purell.NormalizeURL(FlagsSafe) followed by url.Parse: lower-case scheme
\* and host, default port removed
NormalizeUrlObject(u) ==
    LET host == ToLower(Hostname(u))
        port == IF (u.Scheme = "http" /\ Port(u) = "80") \/ (u.Scheme = "https" /\ Port(u) = "443")
                THEN "" ELSE Port(u)
    IN url_Parse(URLString([u EXCEPT !.Scheme = ToLower(u.Scheme),
                                     !.Host = IF port = "" THEN host ELSE host \o ":" \o port]))

UrlToHost(u) ==
    LET port == IF (u.Scheme = "http" /\ Port(u) = "80") \/ (u.Scheme = "https" /\ Port(u) = "443")
                THEN "" ELSE Port(u)
        host == TrimPrefix(Hostname(u), "www.")
    IN IF Len(port) > 0 THEN host \o ":" \o port ELSE host

\* UrlToFileStructure: path and filename of the document of a URL that has
\* no query parameters and no "*" in its path
UrlToFileStructure(u) ==
    LET urlPath == TrimPrefix(TrimSuffix(u.Path, "/"), "/")
        cut == LastIndex(urlPath, "/")
        last == SubSeq(urlPath, cut + 1, Len(urlPath))
    IN [path |-> IF cut = 0 THEN "" ELSE SubSeq(urlPath, 1, cut - 1),
        filename |-> IF Len(last) = 0 THEN RootFilename ELSE last]

\* the allowed content types and the file extension of each
allowedContentTypes2Ext ==
    [ct \in {"text/html", "text/css", "application/javascript", "text/javascript",
             "text/plain", "application/json", "application/xml", "text/xml"} |->
        CASE ct = "text/html" -> "html"
          [] ct = "text/css" -> "css"
          [] ct \in {"application/javascript", "text/javascript"} -> "js"
          [] ct = "text/plain" -> "txt"
          [] ct = "application/json" -> "json"
          [] OTHER -> "xml"]

\* the media type of a Content-Type header: the part before ";", trimmed,
\* lower-cased
MediaType(header) ==
    LET c == Index(header, ";") IN
    ToLower(TrimSpace(IF c = 0 THEN header ELSE SubSeq(header, 1, c - 1)))

\* ------------------------------------------------------------------------
\* The crawled site (the environment): what the server answers per path,
\* and the link attributes found in each HTML body, in document order
\* ------------------------------------------------------------------------
Seed == "https://example.com/"
UrlA == "https://example.com/a"
UrlB == "https://example.com/b.html"
UrlRel == "/x"
UrlOther == "https://other.com/x"
UrlGone == "https://example.com/gone"
UrlRelA == "/a"
UrlStart == "https://example.com/start.html"
UrlIndex == "https://example.com/_index.html"

NotFound == [StatusCode |-> 404, ContentType |-> "text/html", links |-> <<>>]

Pages ==
    [p \in {"/", "/a", "/b.html"} |->
        CASE p = "/" -> [StatusCode |-> 200, ContentType |-> "text/html; charset=utf-8",
                         links |-> <<UrlA, UrlB, UrlOther>>]
          [] p = "/a" -> [StatusCode |-> 200, ContentType |-> "Text/HTML",
                          links |-> <<UrlRel>>]
          [] OTHER -> [StatusCode |-> 200, ContentType |-> "text/html",
                       links |-> <<UrlA, UrlGone>>]]

\* a second site: the root page links to /a twice, by the same relative
\* reference, and to another domain
PagesDup ==
    [p \in {"/", "/a"} |->
        CASE p = "/" -> [StatusCode |-> 200, ContentType |-> "text/html",
                         links |-> <<UrlRelA, UrlRelA, UrlOther>>]
          [] OTHER -> [StatusCode |-> 200, ContentType |-> "text/html", links |-> <<>>]]

\* a third site: the start page links to the root and to /_index.html, two
\* URLs with the same file name; /_index.html is served as text/plain, with
\* a body in which an HTML parser would find a link
PagesCollide ==
    [p \in {"/start.html", "/", "/_index.html"} |->
        CASE p = "/start.html" -> [StatusCode |-> 200, ContentType |-> "text/html",
                                   links |-> <<Seed, UrlIndex>>]
          [] p = "/" -> [StatusCode |-> 200, ContentType |-> "text/html", links |-> <<>>]
          [] OTHER -> [StatusCode |-> 200, ContentType |-> "text/plain",
                       links |-> <<Seed>>]]

\* the sites a crawl can be started on
Sites == {"main", "dup", "collide"}

SitePages(st) ==
    CASE st = "main" -> Pages
      [] st = "dup" -> PagesDup
      [] OTHER -> PagesCollide

\* the --url flag of the crawl of a site
SiteSeed(st) == IF st = "collide" THEN UrlStart ELSE Seed

\* every string that can be a task: the seeds and every link of the sites
Links ==
    {SiteSeed(st) : st \in Sites}
        \cup UNION {UNION {{SitePages(st)[p].links[i] : i \in DOMAIN SitePages(st)[p].links} :
                                p \in DOMAIN SitePages(st)} : st \in Sites}

\* URLs whose fetch can fail with a network error
Flaky == {UrlB}

\* the tasks whose MarkAsProcessed transaction can fail
StoreFlaky == {UrlStart}

Respond(st, rawURL) ==
    LET u == url_Parse(rawURL) IN
    IF UrlToHost(u) = "example.com" /\ u.Path \in DOMAIN SitePages(st)
    THEN SitePages(st)[u.Path] ELSE NotFound

\* ------------------------------------------------------------------------
\* The durable task store (internal/queue/queue.go).  A store value is the
\* content of the three NutsDB collections; every operation below is the
\* body of one db.Update / db.View transaction.
\* ------------------------------------------------------------------------
EmptyStore == [mainList |-> <<>>, mainSet |-> {}, processedSet |-> {}]

\* addTask with the membership test left out
addTask_NoCheck(s, val) ==
    [s |-> [s EXCEPT !.mainList = Append(@, val), !.mainSet = @ \cup {val}], err |-> "nil"]

\* addTask that pushes to the head of the list (LPush for RPush)
addTask_LPush(s, val) ==
    IF val \in s.mainSet
    THEN [s |-> s, err |-> ErrStringAlreadyInQueue]
    ELSE [s |-> [s EXCEPT !.mainList = <<val>> \o @, !.mainSet = @ \cup {val}], err |-> "nil"]

addTask(s, val) ==
    IF val \in s.mainSet
    THEN [s |-> s, err |-> ErrStringAlreadyInQueue]
    ELSE [s |-> [s EXCEPT !.mainList = Append(@, val), !.mainSet = @ \cup {val}], err |-> "nil"]

\* getTask that pops the tail of the list (RPop for LPop)
getTask_RPop(s) ==
    IF s.mainList = <<>>
    THEN [s |-> s, val |-> ""]
    ELSE [s |-> [s EXCEPT !.mainList = SubSeq(@, 1, Len(@) - 1),
                          !.mainSet = @ \ {s.mainList[Len(s.mainList)]}],
          val |-> s.mainList[Len(s.mainList)]]

\* getTask that forgets the SRem of the popped value
getTask_NoSRem(s) ==
    IF s.mainList = <<>>
    THEN [s |-> s, val |-> ""]
    ELSE [s |-> [s EXCEPT !.mainList = Tail(@)], val |-> Head(s.mainList)]

\* getTask that records the popped value as processed
getTask_MarkProcessed(s) ==
    IF s.mainList = <<>>
    THEN [s |-> s, val |-> ""]
    ELSE [s |-> [s EXCEPT !.mainList = Tail(@), !.mainSet = @ \ {Head(s.mainList)},
                          !.processedSet = @ \cup {Head(s.mainList)}],
          val |-> Head(s.mainList)]

getTask(s) ==
    IF s.mainList = <<>>
    THEN [s |-> s, val |-> ""]
    ELSE [s |-> [s EXCEPT !.mainList = Tail(@), !.mainSet = @ \ {Head(s.mainList)}],
          val |-> Head(s.mainList)]

\* MarkAsProcessed that pushes the value to the pending list as well
MarkAsProcessed_Push(s, value) ==
    [s EXCEPT !.processedSet = @ \cup {value}, !.mainList = Append(@, value)]

MarkAsProcessed(s, value) == [s EXCEPT !.processedSet = @ \cup {value}]

IsProcessed(s, value) == value \in s.processedSet

\* queue.Init seeding unconditionally
QueueInit_AlwaysSeed(s, seed) == addTask(s, seed).s

\* queue.Init starting from an empty processed set
QueueInit_ForgetProcessed(s, seed) ==
    IF Len(s.mainList) > 0 THEN [s EXCEPT !.processedSet = {}]
    ELSE [addTask(s, seed).s EXCEPT !.processedSet = {}]

\* queue.Init: the transaction run on the opened store
QueueInit(s, seed) == IF Len(s.mainList) > 0 THEN s ELSE addTask(s, seed).s

\* ------------------------------------------------------------------------
\* State
\* ------------------------------------------------------------------------
VARIABLES
    site,            \* the site the crawl was started on (fixed by the --url flag)
    mainList,        \* durable: the pending list (NutsDB list "mainList")
    mainSet,         \* durable: the pending set (NutsDB set "mainSet")
    processedSet,    \* durable: the processed set (NutsDB set "processedSet")
    files,           \* durable: file name -> content, the files under the output dir
    phase,           \* "running" while the process lives, "exited" after main returned
    cancelled,       \* ctx.Done() is closed
    wgCounter,       \* the counter of the sync.WaitGroup
    tasksInProgress, \* the shared uint32 in-flight counter
    pc,              \* per worker: the point of Run/work it is at
    urlString,       \* per worker: the task it holds ("" when none)
    linkIdx,         \* per worker: index into foundURLs of the link at hand
    restarts,        \* number of process starts after the first
    addedSeq,        \* history: the values of the successful addTask calls, in order
    gotSeq,          \* history: the values returned by getTask, in order
    fetchCount,      \* history: per URL string, the number of httpClient.Get calls
    doneBefore,      \* history: the tasks processed or stored when the process last started
    enqueuedBefore   \* history: the tasks enqueued before the process last started

durable == <<mainList, mainSet, processedSet, files>>
process == <<phase, cancelled, wgCounter, tasksInProgress, pc, urlString, linkIdx, restarts>>
history == <<addedSeq, gotSeq, fetchCount, doneBefore, enqueuedBefore>>
vars == <<site, durable, process, history>>

DB == [mainList |-> mainList, mainSet |-> mainSet, processedSet |-> processedSet]

SetDB(s) ==
    /\ mainList' = s.mainList
    /\ mainSet' = s.mainSet
    /\ processedSet' = s.processedSet

Min(S) == CHOOSE x \in S : \A y \in S : x <= y

\* atomic.AddUint32 on a uint32 held in its two's-complement reading: the
\* values 2^31 .. 2^32-1 are the negative numbers -2^31 .. -1, so adding
\* ^uint32(0) is adding -1 and 0 - 1 is 2^32-1, read as -1
AddUint32(x, delta) ==
    IF delta = 1
    THEN IF x = MaxInt32 THEN (0 - MaxInt32) - 1 ELSE x + 1
    ELSE IF x = (0 - MaxInt32) - 1 THEN MaxInt32 ELSE x - 1

\* ------------------------------------------------------------------------
\* What work() derives from the task it holds
\* ------------------------------------------------------------------------
\* The derivations are functions of the task string alone; they are tabulated
\* over the strings that can be tasks.
ParsedURL == [s \in Links |-> url_Parse(s)]

FileStructure == [s \in Links |-> UrlToFileStructure(ParsedURL[s])]

\* the file name before the content type is known
FullFilenameOf ==
    [s \in Links |->
        OutputDir \o "/" \o CrawlingDir \o "/" \o FileStructure[s].path \o "/"
            \o FileStructure[s].filename]

ResponseTable == [st \in Sites |-> [s \in Links |-> Respond(st, s)]]

Response == ResponseTable[site]

ContentTypeTable ==
    [st \in Sites |-> [s \in Links |-> MediaType(ResponseTable[st][s].ContentType)]]

ContentTypeOf == ContentTypeTable[site]

\* the name the document is stored under: the extension of the content
\* type is appended to a file name without a dot
TargetFilenameTable ==
    [st \in Sites |->
        [s \in Links |->
            IF ~Contains(FileStructure[s].filename, ".")
                  /\ ContentTypeTable[st][s] \in DOMAIN allowedContentTypes2Ext
            THEN FullFilenameOf[s] \o "." \o allowedContentTypes2Ext[ContentTypeTable[st][s]]
            ELSE FullFilenameOf[s]]]

TargetFilenameOf == TargetFilenameTable[site]

\* the loop over foundURLs skips a link whose host differs from the page's
SameHost(page, foundURL) ==
    UrlToHost(NormalizeUrlObject(ResolveReference(url_Parse(page), url_Parse(foundURL))))
        = UrlToHost(url_Parse(page))

\* per page, the indices of the links that reach the IsProcessed call
SameHostLinksTable ==
    [st \in Sites |->
        [s \in Links |->
            {j \in 1..Len(ResponseTable[st][s].links) :
                SameHost(s, ResponseTable[st][s].links[j])}]]

SameHostLinks == SameHostLinksTable[site]

urlObject(w) == ParsedURL[urlString[w]]

fullFilename(w) == FullFilenameOf[urlString[w]]

filenameWasEmpty(w) == FileStructure[urlString[w]].filename = RootFilename

contentType(w) == ContentTypeOf[urlString[w]]

targetFilename(w) == TargetFilenameOf[urlString[w]]

\* the link attributes collected by parseNode from the fetched body
foundURLs(w) == Response[urlString[w]].links

\* index of the first link after position i that reaches the IsProcessed
\* call, 0 if the loop ends
NextLink(w, i) ==
    LET rest == {j \in SameHostLinks[urlString[w]] : j > i}
    IN IF rest = {} THEN 0 ELSE Min(rest)

\* ------------------------------------------------------------------------
\* Initial state: a fresh output directory, queue.Init has seeded the store
\* and main has spawned the workers
\* ------------------------------------------------------------------------
NoFiles == [name \in {} |-> ""]

\* runtimeSettings.URL().String(): the start URL of the crawl
StartURL == SiteSeed(site)

Init ==
    /\ site \in Sites
    /\ mainList = QueueInit(EmptyStore, StartURL).mainList
    /\ mainSet = QueueInit(EmptyStore, StartURL).mainSet
    /\ processedSet = QueueInit(EmptyStore, StartURL).processedSet
    /\ files = NoFiles
    /\ phase = "running"
    /\ cancelled = FALSE
    /\ wgCounter = NumWorkers
    /\ tasksInProgress = 0
    /\ pc = [w \in Workers |-> "select"]
    /\ urlString = [w \in Workers |-> ""]
    /\ linkIdx = [w \in Workers |-> 0]
    /\ restarts = 0
    /\ addedSeq = QueueInit(EmptyStore, StartURL).mainList
    /\ gotSeq = <<>>
    /\ fetchCount = [u \in Links |-> 0]
    /\ doneBefore = {}
    /\ enqueuedBefore = {}

\* ------------------------------------------------------------------------
\* worker.Run
\* ------------------------------------------------------------------------
\* the ctx.Done() branch returning without wg.Done()
Select_NoDone(w) ==
    /\ phase = "running"
    /\ pc[w] = "select"
    /\ pc' = [pc EXCEPT ![w] = IF cancelled THEN "done" ELSE "GetTask"]
    /\ UNCHANGED <<site, durable, phase, cancelled, wgCounter, tasksInProgress, urlString, linkIdx,
                   restarts, history>>

\* the select taking its ctx.Done() branch whether or not the context was
\* cancelled
Select_AlwaysDone(w) ==
    /\ phase = "running"
    /\ pc[w] = "select"
    /\ pc' = [pc EXCEPT ![w] = "done"]
    /\ wgCounter' = wgCounter - 1
    /\ UNCHANGED <<site, durable, phase, cancelled, tasksInProgress, urlString, linkIdx, restarts, history>>

\* the select at the top of the loop: leave on ctx.Done(), else sleep and
\* go on to work()
Select(w) ==
    /\ phase = "running"
    /\ pc[w] = "select"
    /\ IF cancelled
       THEN /\ pc' = [pc EXCEPT ![w] = "done"]
            /\ wgCounter' = wgCounter - 1
       ELSE /\ pc' = [pc EXCEPT ![w] = "GetTask"]
            /\ UNCHANGED wgCounter
    /\ UNCHANGED <<site, durable, phase, cancelled, tasksInProgress, urlString, linkIdx, restarts, history>>

\* the ErrNoWorkToDo branch without its exit: the worker always loops again
NoWork_NeverDone(w) ==
    /\ phase = "running"
    /\ pc[w] = "noWork"
    /\ pc' = [pc EXCEPT ![w] = "select"]
    /\ UNCHANGED <<site, durable, phase, cancelled, wgCounter, tasksInProgress, urlString, linkIdx,
                   restarts, history>>

\* the termination branch calling wg.Done() without returning
NoWork_NoReturn(w) ==
    /\ phase = "running"
    /\ pc[w] = "noWork"
    /\ wgCounter' = IF tasksInProgress = 0 THEN wgCounter - 1 ELSE wgCounter
    /\ pc' = [pc EXCEPT ![w] = "select"]
    /\ UNCHANGED <<site, durable, phase, cancelled, tasksInProgress, urlString, linkIdx, restarts, history>>

\* work() returned ErrNoWorkToDo: leave if nothing is in progress
NoWork(w) ==
    /\ phase = "running"
    /\ pc[w] = "noWork"
    /\ IF tasksInProgress = 0
       THEN /\ pc' = [pc EXCEPT ![w] = "done"]
            /\ wgCounter' = wgCounter - 1
       ELSE /\ pc' = [pc EXCEPT ![w] = "select"]
            /\ UNCHANGED wgCounter
    /\ UNCHANGED <<site, durable, phase, cancelled, tasksInProgress, urlString, linkIdx, restarts, history>>

\* ------------------------------------------------------------------------
\* worker.work
\* ------------------------------------------------------------------------
\* w.q.GetTask(): one Update transaction
GetTask(w) ==
    /\ phase = "running"
    /\ pc[w] = "GetTask"
    /\ LET r == getTask(DB) IN
        /\ SetDB(r.s)
        /\ IF Len(r.val) = 0
           THEN /\ pc' = [pc EXCEPT ![w] = "noWork"]
                /\ UNCHANGED <<urlString, gotSeq>>
           ELSE /\ pc' = [pc EXCEPT ![w] = "gotTask"]
                /\ urlString' = [urlString EXCEPT ![w] = r.val]
                /\ gotSeq' = Append(gotSeq, r.val)
    /\ UNCHANGED <<site, files, phase, cancelled, wgCounter, tasksInProgress, linkIdx, restarts,
                   addedSeq, fetchCount, doneBefore, enqueuedBefore>>

\* BeginTask without the IsAbs test
BeginTask_NoAbsCheck(w) ==
    /\ phase = "running"
    /\ pc[w] = "gotTask"
    /\ tasksInProgress' = AddUint32(tasksInProgress, 1)
    /\ pc' = [pc EXCEPT ![w] = "Stat"]
    /\ UNCHANGED <<site, durable, phase, cancelled, wgCounter, urlString, linkIdx, restarts, history>>

\* atomic.AddUint32(&tasksInProgress, 1), then url.Parse and IsAbs
BeginTask(w) ==
    /\ phase = "running"
    /\ pc[w] = "gotTask"
    /\ tasksInProgress' = AddUint32(tasksInProgress, 1)
    /\ pc' = [pc EXCEPT ![w] = IF IsAbs(urlObject(w)) THEN "Stat" ELSE "return"]
    /\ UNCHANGED <<site, durable, phase, cancelled, wgCounter, urlString, linkIdx, restarts, history>>

\* os.MkdirAll, then os.Stat(fullFilename): an existing file ends the task
Stat(w) ==
    /\ phase = "running"
    /\ pc[w] = "Stat"
    /\ pc' = [pc EXCEPT ![w] = IF fullFilename(w) \in DOMAIN files THEN "return" ELSE "Get"]
    /\ UNCHANGED <<site, durable, phase, cancelled, wgCounter, tasksInProgress, urlString, linkIdx,
                   restarts, history>>

\* httpClient.Get(urlString), the status check and the content-type check
Get(w) ==
    /\ phase = "running"
    /\ pc[w] = "Get"
    /\ fetchCount' = [fetchCount EXCEPT ![urlString[w]] =
                        IF @ < MaxFetchCount THEN @ + 1 ELSE @]
    /\ \/ /\ urlString[w] \in Flaky          \* network error: return err
          /\ pc' = [pc EXCEPT ![w] = "httpError"]
       \/ LET resp == Response[urlString[w]]
              statusOK == resp.StatusCode >= 200 /\ resp.StatusCode < 300
          IN pc' = [pc EXCEPT ![w] =
                        IF statusOK /\ contentType(w) \in DOMAIN allowedContentTypes2Ext
                        THEN "OpenFile" ELSE "rejected"]
    /\ UNCHANGED <<site, durable, phase, cancelled, wgCounter, tasksInProgress, urlString, linkIdx,
                   restarts, addedSeq, gotSeq, doneBefore, enqueuedBefore>>

\* OpenFile that creates the file under its final name as well
OpenFile_InPlace(w) ==
    /\ phase = "running"
    /\ pc[w] = "OpenFile"
    /\ LET temp == targetFilename(w) \o ".temp" IN
        IF temp \in DOMAIN files
        THEN /\ pc' = [pc EXCEPT ![w] = "createError"]
             /\ UNCHANGED files
        ELSE /\ pc' = [pc EXCEPT ![w] = "Write"]
             /\ files' = (temp :> "") @@ (targetFilename(w) :> "") @@ files
    /\ UNCHANGED <<site, mainList, mainSet, processedSet, phase, cancelled, wgCounter, tasksInProgress,
                   urlString, linkIdx, restarts, history>>

\* os.OpenFile(fullFilename+".temp", O_WRONLY|O_CREATE|O_EXCL)
OpenFile(w) ==
    /\ phase = "running"
    /\ pc[w] = "OpenFile"
    /\ LET temp == targetFilename(w) \o ".temp" IN
        IF temp \in DOMAIN files
        THEN /\ pc' = [pc EXCEPT ![w] = "createError"]
             /\ UNCHANGED files
        ELSE /\ pc' = [pc EXCEPT ![w] = "Write"]
             /\ files' = (temp :> "") @@ files
    /\ UNCHANGED <<site, mainList, mainSet, processedSet, phase, cancelled, wgCounter, tasksInProgress,
                   urlString, linkIdx, restarts, history>>

\* io.ReadAll(resp.Body) and tempFile.Write(body)
Write(w) ==
    /\ phase = "running"
    /\ pc[w] = "Write"
    /\ \/ /\ urlString[w] \in Flaky          \* io.ReadAll fails: return err
          /\ pc' = [pc EXCEPT ![w] = "readError"]
          /\ UNCHANGED files
       \/ /\ files' = [files EXCEPT ![targetFilename(w) \o ".temp"] = urlString[w]]
          /\ pc' = [pc EXCEPT ![w] = "Rename"]
    /\ UNCHANGED <<site, mainList, mainSet, processedSet, phase, cancelled, wgCounter, tasksInProgress,
                   urlString, linkIdx, restarts, history>>

\* os.Rename(fullFilename+".temp", fullFilename)
Rename(w) ==
    /\ phase = "running"
    /\ pc[w] = "Rename"
    /\ LET temp == targetFilename(w) \o ".temp"
           kept == DOMAIN files \ {temp}
       IN files' = (targetFilename(w) :> files[temp]) @@ [name \in kept |-> files[name]]
    /\ pc' = [pc EXCEPT ![w] = IF filenameWasEmpty(w) THEN "WriteMarker" ELSE "MarkAsProcessed"]
    /\ UNCHANGED <<site, mainList, mainSet, processedSet, phase, cancelled, wgCounter, tasksInProgress,
                   urlString, linkIdx, restarts, history>>

\* os.WriteFile(fullFilenameWithoutExt, marker text)
WriteMarker(w) ==
    /\ phase = "running"
    /\ pc[w] = "WriteMarker"
    /\ files' = (fullFilename(w) :> "marker") @@ files
    /\ pc' = [pc EXCEPT ![w] = "MarkAsProcessed"]
    /\ UNCHANGED <<site, mainList, mainSet, processedSet, phase, cancelled, wgCounter, tasksInProgress,
                   urlString, linkIdx, restarts, history>>

\* where the link loop goes after the link at index i
AfterLink(w, i) ==
    LET j == NextLink(w, i) IN
    /\ linkIdx' = [linkIdx EXCEPT ![w] = j]
    /\ pc' = [pc EXCEPT ![w] = IF j = 0 THEN "return" ELSE "IsProcessed"]

\* MarkProcessed that skips the store call
MarkProcessed_NoMark(w) ==
    /\ phase = "running"
    /\ pc[w] = "MarkAsProcessed"
    /\ UNCHANGED durable
    /\ IF contentType(w) # "text/html"
       THEN /\ pc' = [pc EXCEPT ![w] = "return"]
            /\ UNCHANGED linkIdx
       ELSE AfterLink(w, 0)
    /\ UNCHANGED <<site, phase, cancelled, wgCounter, tasksInProgress, urlString, restarts,
                   history>>

\* MarkProcessed that parses the body whatever its content type
MarkProcessed_AnyType(w) ==
    /\ phase = "running"
    /\ pc[w] = "MarkAsProcessed"
    /\ SetDB(MarkAsProcessed(DB, urlString[w]))
    /\ AfterLink(w, 0)
    /\ UNCHANGED <<site, files, phase, cancelled, wgCounter, tasksInProgress, urlString, restarts,
                   history>>

\* w.q.MarkAsProcessed(urlString), whose error is only logged, then
\* html.Parse and parseNode for an HTML body
MarkProcessed(w) ==
    /\ phase = "running"
    /\ pc[w] = "MarkAsProcessed"
    /\ \/ SetDB(MarkAsProcessed(DB, urlString[w]))
       \/ /\ urlString[w] \in StoreFlaky     \* the transaction fails: err is logged
          /\ UNCHANGED <<mainList, mainSet, processedSet>>
    /\ IF contentType(w) # "text/html"
       THEN /\ pc' = [pc EXCEPT ![w] = "return"]
            /\ UNCHANGED linkIdx
       ELSE AfterLink(w, 0)
    /\ UNCHANGED <<site, files, phase, cancelled, wgCounter, tasksInProgress, urlString, restarts,
                   history>>

\* w.q.IsProcessed(foundURL): one View transaction
CheckProcessed(w) ==
    /\ phase = "running"
    /\ pc[w] = "IsProcessed"
    /\ IF IsProcessed(DB, foundURLs(w)[linkIdx[w]])
       THEN AfterLink(w, linkIdx[w])
       ELSE /\ pc' = [pc EXCEPT ![w] = "AddTask"]
            /\ UNCHANGED linkIdx
    /\ UNCHANGED <<site, durable, phase, cancelled, wgCounter, tasksInProgress, urlString, restarts,
                   history>>

\* w.q.AddTask(foundURL): one Update transaction
AddTask(w) ==
    /\ phase = "running"
    /\ pc[w] = "AddTask"
    /\ LET foundURL == foundURLs(w)[linkIdx[w]]
           r == addTask(DB, foundURL)
       IN /\ SetDB(r.s)
          /\ addedSeq' = IF r.err = "nil" THEN Append(addedSeq, foundURL) ELSE addedSeq
    /\ AfterLink(w, linkIdx[w])
    /\ UNCHANGED <<site, files, phase, cancelled, wgCounter, tasksInProgress, urlString, restarts,
                   gotSeq, fetchCount, doneBefore, enqueuedBefore>>

\* the positions of work() at one of its return statements
ReturnPoints == {"return", "httpError", "rejected", "createError", "readError"}

\* Return that lets an error returned by work() end the worker
Return_FatalError(w) ==
    /\ phase = "running"
    /\ pc[w] \in ReturnPoints
    /\ tasksInProgress' = AddUint32(tasksInProgress, -1)
    /\ LET fatal == pc[w] \in {"httpError", "createError", "readError"} IN
        /\ pc' = [pc EXCEPT ![w] = IF fatal THEN "done" ELSE "select"]
        /\ wgCounter' = IF fatal THEN wgCounter - 1 ELSE wgCounter
    /\ urlString' = [urlString EXCEPT ![w] = ""]
    /\ linkIdx' = [linkIdx EXCEPT ![w] = 0]
    /\ UNCHANGED <<site, durable, phase, cancelled, restarts, history>>

\* work() returning without the deferred decrement
Return_NoDecrement(w) ==
    /\ phase = "running"
    /\ pc[w] \in ReturnPoints
    /\ UNCHANGED tasksInProgress
    /\ pc' = [pc EXCEPT ![w] = "select"]
    /\ urlString' = [urlString EXCEPT ![w] = ""]
    /\ linkIdx' = [linkIdx EXCEPT ![w] = 0]
    /\ UNCHANGED <<site, durable, phase, cancelled, wgCounter, restarts, history>>

\* work() returns, from any of its return statements ("httpError": the
\* return err after httpClient.Get, "createError": the return err after
\* os.OpenFile, "readError": the return err after io.ReadAll; "rejected":
\* the return nil after a bad
\* status or content type): the deferred
\* atomic.AddUint32(&tasksInProgress, ^uint32(0))
Return(w) ==
    /\ phase = "running"
    /\ pc[w] \in ReturnPoints
    /\ tasksInProgress' = AddUint32(tasksInProgress, -1)
    /\ pc' = [pc EXCEPT ![w] = "select"]
    /\ urlString' = [urlString EXCEPT ![w] = ""]
    /\ linkIdx' = [linkIdx EXCEPT ![w] = 0]
    /\ UNCHANGED <<site, durable, phase, cancelled, wgCounter, restarts, history>>

\* ------------------------------------------------------------------------
\* main
\* ------------------------------------------------------------------------
\* a SIGINT/SIGTERM arrives: cancel()
Cancel ==
    /\ phase = "running"
    /\ ~cancelled
    /\ cancelled' = TRUE
    /\ UNCHANGED <<site, durable, phase, wgCounter, tasksInProgress, pc, urlString, linkIdx, restarts,
                   history>>

\* main returning, and closing the store, without waiting for the workers
Exit_NoWait ==
    /\ phase = "running"
    /\ phase' = "exited"
    /\ UNCHANGED <<site, durable, cancelled, wgCounter, tasksInProgress, pc, urlString, linkIdx,
                   restarts, history>>

\* wg.Wait() returns, exitCh is closed, main returns and the deferred
\* q.Cleanup() closes the store
Exit ==
    /\ phase = "running"
    /\ wgCounter = 0
    /\ phase' = "exited"
    /\ UNCHANGED <<site, durable, cancelled, wgCounter, tasksInProgress, pc, urlString, linkIdx,
                   restarts, history>>

\* the document of task t is on disk under its final name
Stored(t) == TargetFilenameOf[t] \in DOMAIN files /\ files[TargetFilenameOf[t]] = t

\* a new process on the same output directory: queue.Init on the persisted
\* store, fresh process state, workers spawned
StartProcess ==
    /\ restarts < MaxRestarts
    /\ restarts' = restarts + 1
    /\ SetDB(QueueInit(DB, StartURL))
    /\ addedSeq' = IF QueueInit(DB, StartURL).mainList # mainList THEN Append(addedSeq, StartURL)
                   ELSE addedSeq
    /\ phase' = "running"
    /\ cancelled' = FALSE
    /\ wgCounter' = NumWorkers
    /\ tasksInProgress' = 0
    /\ pc' = [w \in Workers |-> "select"]
    /\ urlString' = [w \in Workers |-> ""]
    /\ linkIdx' = [w \in Workers |-> 0]
    /\ doneBefore' = processedSet \cup {t \in Links : Stored(t)}
    /\ enqueuedBefore' = {addedSeq[i] : i \in DOMAIN addedSeq}
    /\ UNCHANGED <<site, files, gotSeq, fetchCount>>

\* the crawler is run again after it exited
Restart ==
    /\ phase = "exited"
    /\ StartProcess

\* the process is killed at an arbitrary point and run again
CrashRestart ==
    /\ phase = "running"
    /\ StartProcess

Next ==
    \/ \E w \in Workers :
        \/ Select(w) \/ NoWork(w) \/ GetTask(w) \/ BeginTask(w) \/ Stat(w) \/ Get(w)
        \/ OpenFile(w) \/ Write(w) \/ Rename(w) \/ WriteMarker(w) \/ MarkProcessed(w)
        \/ CheckProcessed(w) \/ AddTask(w) \/ Return(w)
    \/ Cancel
    \/ Exit
    \/ Restart
    \/ CrashRestart

Spec == Init /\ [][Next]_vars

\* one process run under a fair scheduler: every worker goroutine that can
\* take a step eventually takes one (every fetch and store operation
\* returns), and main returns once wg.Wait() has returned; the process is
\* neither killed nor started again
WorkerStep(w) ==
    \/ Select(w) \/ NoWork(w) \/ GetTask(w) \/ BeginTask(w) \/ Stat(w) \/ Get(w)
    \/ OpenFile(w) \/ Write(w) \/ Rename(w) \/ WriteMarker(w) \/ MarkProcessed(w)
    \/ CheckProcessed(w) \/ AddTask(w) \/ Return(w)

NextOneRun ==
    \/ \E w \in Workers : WorkerStep(w)
    \/ Cancel
    \/ Exit

FairSpec ==
    /\ Init
    /\ [][NextOneRun]_vars
    /\ \A w \in Workers : WF_vars(WorkerStep(w))
    /\ WF_vars(Exit)

TypeOK ==
    /\ mainSet \subseteq Links
    /\ processedSet \subseteq Links
    /\ phase \in {"running", "exited"}
    /\ wgCounter \in 0..NumWorkers
    /\ tasksInProgress \in 0..NumWorkers

\* ------------------------------------------------------------------------
\* Steps, as seen by action formulas
\* ------------------------------------------------------------------------
\* the step is worker w's GetTask / AddTask transaction
GetTaskStep(w) == pc[w] = "GetTask" /\ pc'[w] # "GetTask" /\ restarts' = restarts

AddTaskStep(w) == pc[w] = "AddTask" /\ pc'[w] # "AddTask" /\ restarts' = restarts

\* the step is worker w's httpClient.Get
GetStep(w) == pc[w] = "Get" /\ pc'[w] # "Get" /\ restarts' = restarts

\* the step starts a process, i.e. runs queue.Init on the persisted store
InitStep == restarts' = restarts + 1

Range(seq) == {seq[i] : i \in DOMAIN seq}

Count(seq, t) == Cardinality({i \in DOMAIN seq : seq[i] = t})

\* ------------------------------------------------------------------------
\* C1..C10
\* ------------------------------------------------------------------------

\* C1: dedup invariant I1 - in every reachable state no task is both in the
\* pending set (mainSet) and in the processed set.
C1_DedupInvariant == mainSet \cap processedSet = {}

\* C2: at-most-once fetch - within one run of the pool (no restart), no URL
\* is fetched by httpClient.Get more than once.
C2_AtMostOneFetch == restarts = 0 => \A u \in Links : fetchCount[u] <= 1

\* C3: AddTask(t) appends t to the pending list and adds it to the pending
\* set iff t is in neither the pending set nor the processed set; otherwise
\* it inserts nothing.
C3_AddTaskContract ==
    [][\A w \in Workers :
        AddTaskStep(w) =>
            LET t == foundURLs(w)[linkIdx[w]] IN
            IF t \notin mainSet /\ t \notin processedSet
            THEN /\ mainList' = Append(mainList, t)
                 /\ mainSet' = mainSet \cup {t}
                 /\ processedSet' = processedSet
            ELSE UNCHANGED <<mainList, mainSet, processedSet, addedSeq>>]_vars

\* C4: check-and-insert atomicity - when two workers are both about to call
\* AddTask with the same task, which is not pending, the call that runs first
\* succeeds, the other one is then rejected with ErrStringAlreadyInQueue and
\* inserts nothing, and the pending list holds the task exactly once.
C4_AddTaskAtomic ==
    [][\A w1, w2 \in Workers :
        (/\ w1 # w2
         /\ AddTaskStep(w1)
         /\ pc[w2] = "AddTask"
         /\ foundURLs(w2)[linkIdx[w2]] = foundURLs(w1)[linkIdx[w1]]
         /\ foundURLs(w1)[linkIdx[w1]] \notin mainSet)
        => LET t == foundURLs(w1)[linkIdx[w1]]
               after == [mainList |-> mainList', mainSet |-> mainSet',
                         processedSet |-> processedSet']
           IN /\ mainList' = Append(mainList, t)
              /\ addTask(after, t).err = ErrStringAlreadyInQueue
              /\ addTask(after, t).s = after
              /\ Count(mainList', t) = 1]_vars

\* one of the two calls has run and succeeded, the other is still to run
C4_Witness ==
    \E w1, w2 \in Workers :
        /\ w1 # w2
        /\ pc[w2] = "AddTask"
        /\ pc[w1] = "return"
        /\ urlString[w1] \in Links
        /\ foundURLs(w2)[linkIdx[w2]] \in Range(foundURLs(w1))
        /\ addedSeq[Len(addedSeq)] = foundURLs(w2)[linkIdx[w2]]
        /\ Count(mainList, foundURLs(w2)[linkIdx[w2]]) = 1

\* C5: invariant I2 - the pending list holds no task twice and the pending
\* set is exactly the set of the tasks in the list; the two change only
\* together, in an addTask (AddTask, Init) or a getTask transaction.
I2 ==
    /\ \A i, j \in DOMAIN mainList : mainList[i] = mainList[j] => i = j
    /\ mainSet = Range(mainList)

C5_PendingListMirrorsSet ==
    /\ []I2
    /\ [][(mainList' # mainList \/ mainSet' # mainSet) =>
            /\ mainList' # mainList
            /\ mainSet' # mainSet
            /\ InitStep \/ \E w \in Workers : GetTaskStep(w) \/ AddTaskStep(w)]_vars

C5_Witness == Len(mainList) >= 2 /\ Len(gotSeq) >= 2

\* C6: GetTask on a non-empty pending list returns the head of the list,
\* removes it from the list and from the pending set in the same step and
\* leaves the processed set alone; on an empty list it returns the empty
\* string without error (the worker sees ErrNoWorkToDo) and changes nothing.
C6_GetTaskContract ==
    [][\A w \in Workers :
        GetTaskStep(w) =>
            IF mainList # <<>>
            THEN /\ urlString'[w] = Head(mainList)
                 /\ pc'[w] = "gotTask"
                 /\ mainList' = Tail(mainList)
                 /\ mainSet' = mainSet \ {Head(mainList)}
                 /\ processedSet' = processedSet
            ELSE /\ pc'[w] = "noWork"
                 /\ urlString'[w] = ""
                 /\ UNCHANGED <<mainList, mainSet, processedSet>>]_vars

C6_Witness ==
    \E w1, w2 \in Workers : pc[w1] = "gotTask" /\ pc[w2] = "noWork" /\ mainList # <<>>

\* C7: FIFO - the tasks returned by the successful GetTask calls, in order,
\* followed by the tasks still pending, are the tasks of the successful
\* addTask calls in the order in which they succeeded.
C7_Fifo == gotSeq \o mainList = addedSeq

C7_Witness == Len(gotSeq) >= 3 /\ Len(mainList) >= 1 /\ gotSeq[2] # gotSeq[3]

\* C8: MarkAsProcessed is idempotent - on every reachable store and for every
\* task, marking twice gives the store that marking once gives, and
\* IsProcessed is true after either.
C8_MarkIdempotent ==
    \A t \in Links :
        LET once == MarkAsProcessed(DB, t)
            twice == MarkAsProcessed(once, t)
        IN twice = once /\ IsProcessed(once, t) /\ IsProcessed(twice, t)

C8_Witness ==
    \E w \in Workers : pc[w] = "MarkAsProcessed" /\ urlString[w] \in processedSet

\* C9: Init seeds the store iff the pending list is empty when the store is
\* opened: a non-empty persisted list leaves list, pending set and processed
\* set as persisted; an empty list becomes the one-element list of the seed.
C9_InitSeedsIffEmpty ==
    [][InitStep =>
        IF mainList # <<>>
        THEN UNCHANGED <<mainList, mainSet, processedSet>>
        ELSE mainList' = <<StartURL>> /\ mainSet' = {StartURL} /\ processedSet' = processedSet]_vars

C9_Witness ==
    /\ restarts = 1
    /\ \A w \in Workers : pc[w] = "select"
    /\ mainList = <<UrlGone>>
    /\ Seed \in processedSet

\* C10: no re-fetch across restart - a task that was in the processed set, or
\* whose document was on disk under its final name, when the process was
\* started again is not fetched by any worker of the new process.
C10_NoRefetchAfterRestart ==
    [][\A w \in Workers : GetStep(w) => urlString[w] \notin doneBefore]_vars

\* ------------------------------------------------------------------------
\* C11..C20
\* ------------------------------------------------------------------------
\* the response to task t is a terminal rejection: a status outside [200,300)
\* or a content type outside the allowed mapping
RejectedResponse(t) ==
    \/ ~(Response[t].StatusCode >= 200 /\ Response[t].StatusCode < 300)
    \/ ContentTypeOf[t] \notin DOMAIN allowedContentTypes2Ext

\* task t has come to an end: its document is on disk under its final name,
\* or it was discarded as not absolute, or a fetch of it was rejected or failed
Settled(t) ==
    \/ Stored(t)
    \/ ~IsAbs(ParsedURL[t])
    \/ fetchCount[t] >= 1 /\ (RejectedResponse(t) \/ t \in Flaky)

\* C11: resume after interruption or crash - when a restarted process has run
\* to natural termination (every worker left, no cancellation), every URL
\* that had been enqueued before the stop has a finalized file on disk or a
\* completed rejection; no enqueued URL is lost.
C11_ResumeLosesNothing ==
    (restarts >= 1 /\ phase = "exited" /\ ~cancelled) =>
        \A t \in enqueuedBefore : Settled(t)

\* C12: terminal rejection is recorded - a worker that is leaving a task
\* because the response had a bad status or a content type that is not
\* allowed has marked the task processed, has stored no body and has
\* extracted no links.
C12_RejectionRecorded ==
    \A w \in Workers :
        pc[w] = "rejected" =>
            /\ urlString[w] \in processedSet
            /\ ~Stored(urlString[w])
            /\ linkIdx[w] = 0

\* C13: network error is terminal - a worker that is leaving a task because
\* httpClient.Get failed has marked the task processed, so that IsProcessed
\* answers true for it and no later link to it is enqueued and fetched again.
C13_NetworkErrorTerminal ==
    \A w \in Workers :
        pc[w] = "httpError" =>
            /\ urlString[w] \in processedSet
            /\ IsProcessed(DB, urlString[w])

\* C14: termination - in a run in which no cancellation is ever raised, under
\* weak fairness of each worker, eventually every worker has left its loop
\* (through the termination branch, the only exit without cancellation).
AllDone == \A w \in Workers : pc[w] = "done"

C14_Termination == <>(cancelled \/ AllDone)

C14_Witness == AllDone /\ ~cancelled /\ wgCounter = 0 /\ UrlA \in processedSet

\* C15: termination is never early - a worker leaves through the termination
\* branch only in a state where the pending list is empty and no other
\* worker holds a task that it has dequeued and not yet finished.
C15_NoEarlyTermination ==
    [][\A w \in Workers :
        (pc[w] = "noWork" /\ pc'[w] = "done") =>
            /\ mainList = <<>>
            /\ \A v \in Workers \ {w} : urlString[v] = ""]_vars

\* C16: cancellation stops dequeues - once ctx is cancelled no worker starts
\* a GetTask, and a worker that holds a task when ctx is cancelled is not
\* aborted: it leaves its loop only from the select, after work() returned.
C16_CancelStopsDequeues ==
    [][\A w \in Workers :
        /\ GetTaskStep(w) => ~cancelled
        /\ (pc'[w] = "done" /\ pc[w] # "done" /\ cancelled) =>
                pc[w] = "select" /\ urlString[w] = ""]_vars

\* C17: pool join - under a fair scheduler main's wait completes and main
\* returns, both when every worker left by the termination protocol with no
\* signal delivered and when a signal cancelled the context.
C17_PoolJoin == <>(phase = "exited")

C17_Witness == phase = "exited" /\ cancelled /\ AllDone /\ mainList # <<>>

\* C18: store close ordering - Cleanup runs once per process run (main
\* returns once), only when every worker has left its loop and so has done
\* its last store operation; after it, no worker moves and the store does
\* not change until a new process opens it.
C18_CloseAfterWorkers ==
    /\ [](phase = "exited" => AllDone /\ wgCounter = 0 /\ \A w \in Workers : urlString[w] = "")
    /\ [][phase = "exited" =>
            \/ InitStep
            \/ UNCHANGED <<mainList, mainSet, processedSet, files, pc, phase>>]_vars

C18_Witness == phase = "exited" /\ AllDone /\ Len(gotSeq) >= 2 /\ processedSet # {}

\* the domain key of a task string: host without leading www., default port
\* removed, scheme ignored
DomainKey(t) == UrlToHost(url_Parse(t))

\* C19: same-domain only - every task that was enqueued and every URL that
\* was fetched has the domain key of the crawl's start URL.
C19_SameDomainOnly ==
    /\ \A i \in DOMAIN addedSeq : DomainKey(addedSeq[i]) = DomainKey(StartURL)
    /\ \A t \in Links : fetchCount[t] > 0 => DomainKey(t) = DomainKey(StartURL)

\* C20: atomic materialization - in every reachable state, the states left
\* by a crash included, a file whose name is not a .temp name holds the
\* complete body of the response to a URL stored under that name (or is the
\* marker file of a root document); only a .temp file holds partial content.
C20_AtomicMaterialization ==
    \A name \in DOMAIN files :
        ~HasSuffix(name, ".temp") =>
            \/ \E t \in Links : name = TargetFilenameOf[t] /\ files[name] = t
            \/ /\ files[name] = "marker"
               /\ \E t \in Links : name = FullFilenameOf[t] /\ FileStructure[t].filename = RootFilename

C20_Witness ==
    /\ restarts >= 1
    /\ \E name \in DOMAIN files : HasSuffix(name, ".temp") /\ files[name] = ""
    /\ \E t \in Links : Stored(t)

\* ------------------------------------------------------------------------
\* C21..C30
\* ------------------------------------------------------------------------
\* C21: scenario - the crawl of the site whose root page links to /a, to /a a
\* second time and to https://other.com/x, once it has run to its natural
\* end, has fetched https://example.com/a exactly once, has fetched no
\* other.com URL and has the processed set {https://example.com/,
\* https://example.com/a}.
C21_DuplicateLinkScenario ==
    (site = "dup" /\ restarts = 0 /\ phase = "exited" /\ ~cancelled) =>
        /\ fetchCount[UrlA] = 1
        /\ \A t \in Links : DomainKey(t) = "other.com" => fetchCount[t] = 0
        /\ processedSet = {Seed, UrlA}

\* the final file name of task t holds the body of another URL
CollidesWithStored(t) ==
    \E u \in Links \ {t} :
        /\ TargetFilenameOf[u] = TargetFilenameOf[t]
        /\ Stored(u)

\* C22: filename collision - a task whose final file name already holds the
\* document of another URL (the root path and the explicit path of its
\* file name, in either order) stops at the existence check without a fetch
\* and without an error, and the stored document is never overwritten.
C22_CollisionSkips ==
    [][/\ \A w \in Workers :
            (pc[w] = "Stat" /\ pc'[w] # "Stat" /\ restarts' = restarts
                /\ CollidesWithStored(urlString[w])) => pc'[w] = "return"
       /\ \A name \in DOMAIN files :
            (~HasSuffix(name, ".temp") /\ files[name] \in Links) =>
                name \in DOMAIN files' /\ files'[name] = files[name]]_vars

\* C23: no task failure is fatal to the pool - a worker leaves its loop only
\* from the select that observes the cancellation or from the check that
\* finds the queue empty with tasksInProgress = 0; a work() that returns an
\* error (network, file creation, body read) puts the worker back at its
\* select, with the wait group untouched and no other worker stopped.
C23_NoFatalTaskFailure ==
    [][\A w \in Workers :
        /\ (pc[w] # "done" /\ pc'[w] = "done" /\ restarts' = restarts) =>
                \/ pc[w] = "select" /\ cancelled
                \/ pc[w] = "noWork" /\ tasksInProgress = 0
        /\ (pc[w] \in {"httpError", "createError", "readError"}
                /\ pc'[w] # pc[w] /\ restarts' = restarts) =>
                /\ pc'[w] = "select"
                /\ wgCounter' = wgCounter
                /\ \A v \in Workers \ {w} : pc'[v] = pc[v]]_vars

\* the fetch of /b.html failed with a network error (it was fetched, holds
\* no file and is not recorded), and afterwards both workers are still in
\* their loops, one of them with a new task
C23_Witness ==
    /\ site = "main" /\ restarts = 0 /\ phase = "running"
    /\ fetchCount[UrlB] >= 1
    /\ UrlB \notin processedSet
    /\ \A w \in Workers : urlString[w] # UrlB /\ pc[w] # "done"
    /\ \A name \in DOMAIN files : files[name] # UrlB
    /\ TargetFilenameOf[UrlB] \o ".temp" \notin DOMAIN files
    /\ \E w \in Workers : pc[w] = "gotTask"

\* worker v holds task t: GetTask returned t to v and v's work() on it has
\* not returned
Holds(v, t) == urlString[v] = t /\ pc[v] \notin {"select", "GetTask", "noWork", "done"}

\* C24: in-flight tasks block re-enqueue - an AddTask(T) made while some
\* worker holds T, dequeued and not yet in the processed set, is rejected as
\* already queued and leaves the pending list as it was.
C24_InFlightBlocksReenqueue ==
    [][\A w \in Workers :
        AddTaskStep(w) =>
            LET T == foundURLs(w)[linkIdx[w]] IN
            (T \notin processedSet /\ \E v \in Workers : Holds(v, T)) =>
                /\ addTask(DB, T).err = ErrStringAlreadyInQueue
                /\ mainList' = mainList]_vars

\* C25: in-flight counter accuracy - in every state tasksInProgress equals
\* the number of workers that hold a task returned by GetTask and have not
\* finished it, so it is at least 1 whenever some worker holds a task.
C25_CounterAccuracy ==
    /\ tasksInProgress = Cardinality({w \in Workers : \E t \in Links : Holds(w, t)})
    /\ (\E w \in Workers, t \in Links : Holds(w, t)) => tasksInProgress >= 1

\* C26: already-downloaded check - a worker that reaches the existence check
\* with a URL whose body is stored under its final file name finds a file
\* there and ends the task without an HTTP fetch.
C26_StoredIsSkipped ==
    [][\A w \in Workers :
        (pc[w] = "Stat" /\ pc'[w] # "Stat" /\ restarts' = restarts
            /\ Stored(urlString[w])) =>
                /\ pc'[w] = "return"
                /\ fetchCount' = fetchCount]_vars

\* C27: temp files are transient - whenever no worker is between creating a
\* .temp file and renaming it, no .temp file exists under the crawled tree.
C27_NoStrayTemp ==
    (\A w \in Workers : pc[w] \notin {"Write", "Rename", "readError"}) =>
        \A name \in DOMAIN files : ~HasSuffix(name, ".temp")

\* C28: exclusive-create collision - a task whose creation of the .temp file
\* failed because the file existed is retried later: unless the crawl is
\* cancelled, it is dequeued again or its body ends up stored.
C28_CollisionRetried ==
    \A t \in Links :
        (\E w \in Workers : pc[w] = "createError" /\ urlString[w] = t)
            ~> \/ cancelled
               \/ Stored(t)
               \/ \E v \in Workers : pc[v] = "gotTask" /\ urlString[v] = t

\* the step is worker w's w.q.MarkAsProcessed(urlString)
MarkStep(w) == pc[w] = "MarkAsProcessed" /\ pc'[w] # "MarkAsProcessed" /\ restarts' = restarts

\* C29: per-task ordering - a worker calls MarkAsProcessed(task) only after
\* the rename has put the complete body under the target name, and it calls
\* AddTask for a link of the task only after MarkAsProcessed(task) has put
\* the task into the processed set (or has failed, for a task whose store
\* transaction can fail).
C29_PerTaskOrdering ==
    [][\A w \in Workers :
        /\ MarkStep(w) =>
                /\ targetFilename(w) \in DOMAIN files
                /\ files[targetFilename(w)] \in Links
                /\ urlString[w] \in processedSet' \/ urlString[w] \in StoreFlaky
        /\ AddTaskStep(w) =>
                /\ urlString[w] \in processedSet \/ urlString[w] \in StoreFlaky
                /\ targetFilename(w) \in DOMAIN files]_vars

\* a worker is about to enqueue a link of a task that is stored and marked
C29_Witness ==
    \E w \in Workers :
        /\ pc[w] = "AddTask"
        /\ Stored(urlString[w])
        /\ urlString[w] \in processedSet
        /\ foundURLs(w)[linkIdx[w]] \notin mainSet

\* C30: link extraction only for stored HTML - AddTask is called only by a
\* worker whose task got a 2xx response of content type text/html and whose
\* body is under its target name, and within a run nothing else adds to the
\* pending list: skipped, rejected and non-HTML tasks enqueue nothing.
C30_LinksOnlyFromStoredHtml ==
    [][/\ \A w \in Workers :
            AddTaskStep(w) =>
                /\ Response[urlString[w]].StatusCode >= 200
                /\ Response[urlString[w]].StatusCode < 300
                /\ contentType(w) = "text/html"
                /\ targetFilename(w) \in DOMAIN files
       /\ (restarts' = restarts /\ Len(mainList') > Len(mainList)) =>
            \E w \in Workers : AddTaskStep(w)]_vars

\* /_index.html, served as text/plain with a link to the root in its body,
\* is stored and marked and its worker is at the end of work(), while the
\* root is neither processed nor pending
C30_Witness ==
    \E w \in Workers :
        /\ site = "collide"
        /\ pc[w] = "return"
        /\ urlString[w] = UrlIndex
        /\ Stored(UrlIndex)
        /\ UrlIndex \in processedSet
        /\ Seed \notin processedSet
        /\ Seed \notin mainSet

\* ------------------------------------------------------------------------
\* C31..C39
\* ------------------------------------------------------------------------
\* the link text resolved against the start URL and normalized, as the link
\* loop computes it for its host comparison
Canonicalize(t) ==
    URLString(NormalizeUrlObject(ResolveReference(url_Parse(StartURL), url_Parse(t))))

\* C31: tasks are canonical - every string in the pending list or in the
\* processed set is an absolute URL equal to its own canonical form (the
\* link resolved against its page and normalized).
C31_TasksCanonical ==
    \A t \in Range(mainList) \cup processedSet :
        IsAbs(url_Parse(t)) /\ Canonicalize(t) = t

\* C32: abandon on storage or filesystem error - a task whose processing
\* hits a failed store transaction or a failed temp-file creation or body
\* read is abandoned: the worker's next position is a return of work(), so
\* it enqueues no link of the task, the store is left as it was, and the
\* worker is back at its select after the return.
C32_AbandonOnError ==
    [][\A w \in Workers :
        /\ (MarkStep(w) /\ urlString[w] \notin processedSet') =>
                pc'[w] \in ReturnPoints
        /\ (pc[w] \in {"createError", "readError"} /\ pc'[w] # pc[w]
                /\ restarts' = restarts) =>
                /\ pc'[w] = "select"
                /\ UNCHANGED <<mainList, mainSet, processedSet>>]_vars

\* the step is worker w's w.q.IsProcessed(foundURL)
IsProcessedStep(w) == pc[w] = "IsProcessed" /\ pc'[w] # "IsProcessed" /\ restarts' = restarts

\* C33: frame conditions of the store - GetTask leaves the processed set as
\* it was, MarkAsProcessed leaves the pending list and the pending set as
\* they were, IsProcessed changes nothing, and an AddTask that returns
\* ErrStringAlreadyInQueue changes none of the three collections.
C33_StoreFrames ==
    [][\A w \in Workers :
        /\ GetTaskStep(w) =>
                /\ processedSet' = processedSet
                /\ getTask(DB).s.processedSet = processedSet
        /\ MarkStep(w) =>
                /\ mainList' = mainList /\ mainSet' = mainSet
                /\ \A t \in Links :
                        /\ MarkAsProcessed(DB, t).mainList = mainList
                        /\ MarkAsProcessed(DB, t).mainSet = mainSet
        /\ IsProcessedStep(w) => UNCHANGED <<mainList, mainSet, processedSet>>
        /\ (AddTaskStep(w)
                /\ addTask(DB, foundURLs(w)[linkIdx[w]]).err = ErrStringAlreadyInQueue) =>
                UNCHANGED <<mainList, mainSet, processedSet>>]_vars

\* a worker is about to call AddTask for a link that is in the pending set,
\* after tasks were dequeued and marked with all three collections non-empty
C33_Witness ==
    \E w \in Workers :
        /\ pc[w] = "AddTask"
        /\ foundURLs(w)[linkIdx[w]] \in mainSet
        /\ mainList # <<>>
        /\ processedSet # {}
        /\ Len(gotSeq) >= 2

\* C34: no pending work is left behind by natural termination - in a run
\* that was not cancelled, when every worker has exited the pending list is
\* empty; so while the pending list is non-empty some worker has not exited.
C34_NoPendingLeftBehind ==
    (~cancelled /\ \A w \in Workers : pc[w] = "done") => mainList = <<>>

\* one worker has exited early, the run is not cancelled, and the pending
\* list holds links that the remaining worker enqueued
C34_Witness ==
    /\ ~cancelled
    /\ phase = "running"
    /\ mainList # <<>>
    /\ \E w \in Workers : pc[w] = "done"
    /\ \E w \in Workers : pc[w] # "done"

\* C35: processed implies stored - every task in the processed set has,
\* under its final file name, the document written by the task execution
\* that marked it.
C35_ProcessedImpliesStored ==
    \A t \in processedSet : Stored(t)

\* worker w holds a task that is not an absolute URL
HoldsNonAbsolute(w) == urlString[w] \in Links /\ ~IsAbs(ParsedURL[urlString[w]])

\* C36: non-absolute tasks are discarded - a worker that got a task that is
\* not an absolute URL goes from the IsAbs test straight to the return of
\* work(): no fetch, no file, no change of the store; the return decrements
\* tasksInProgress and puts the worker back at its select.
C36_NonAbsoluteDiscarded ==
    [][\A w \in Workers :
        (HoldsNonAbsolute(w) /\ restarts' = restarts) =>
            /\ pc[w] \in {"gotTask", "return"}
            /\ (pc[w] = "gotTask" /\ pc'[w] # "gotTask") => pc'[w] = "return"
            /\ (pc[w] = "return" /\ pc'[w] # "return") =>
                    /\ pc'[w] = "select"
                    /\ tasksInProgress' = tasksInProgress - 1
            /\ pc'[w] # pc[w] =>
                    /\ UNCHANGED <<mainList, mainSet, processedSet, files>>
                    /\ fetchCount' = fetchCount]_vars

\* the task "/a" was dequeued and dropped: no worker holds it, it was not
\* fetched or marked, and a worker is on its way to the next GetTask
C36_Witness ==
    /\ site = "dup" /\ restarts = 0 /\ phase = "running"
    /\ UrlRelA \in Range(gotSeq)
    /\ \A w \in Workers : urlString[w] # UrlRelA
    /\ fetchCount[UrlRelA] = 0
    /\ UrlRelA \notin processedSet
    /\ \E w \in Workers : pc[w] = "GetTask"

\* C37: the processed set only grows - no step of a worker, of main or of
\* queue.Init on a restart removes a task from the processed set, so an
\* IsProcessed(t) that is true stays true in every later state.
C37_ProcessedOnlyGrows ==
    [][/\ processedSet \subseteq processedSet'
       /\ \A t \in Links :
            IsProcessed(DB, t) =>
                IsProcessed([mainList |-> mainList', mainSet |-> mainSet',
                             processedSet |-> processedSet'], t)]_vars

\* a restarted process whose store still holds the root task, marked
\* processed before the restart (its link /a was enqueued before it)
C37_Witness ==
    /\ site = "main"
    /\ restarts = 1
    /\ phase = "running"
    /\ UrlA \in enqueuedBefore
    /\ IsProcessed(DB, Seed)

\* the positions of a worker outside work() or inside it before the
\* increment of tasksInProgress
BeforeIncrement == {"select", "GetTask", "gotTask", "noWork", "done"}

\* C38: in-flight counter well-formedness - tasksInProgress is never below 0
\* or above the number of workers, it counts exactly the workers that have
\* incremented it and not yet returned from work(), error returns included,
\* and it is 0 whenever no worker is inside work().
C38_CounterWellFormed ==
    /\ tasksInProgress >= 0
    /\ tasksInProgress <= NumWorkers
    /\ tasksInProgress = Cardinality({w \in Workers : pc[w] \notin BeforeIncrement})
    /\ (\A w \in Workers : pc[w] \in {"select", "noWork", "done"}) => tasksInProgress = 0

\* after work() returned the network error of /b.html and three tasks were
\* dequeued, no worker is inside work() and the counter is back at 0
C38_Witness ==
    /\ site = "main" /\ restarts = 0
    /\ \A w \in Workers : pc[w] \in {"select", "noWork"}
    /\ tasksInProgress = 0
    /\ fetchCount[UrlB] >= 1
    /\ UrlB \notin processedSet
    /\ ~Stored(UrlB)
    /\ Len(gotSeq) >= 3

\* C39: wait-group accounting - the wait-group counter starts at the number
\* of workers, is never negative, always equals the number of workers that
\* have not left their loop, and changes within a run only by the one
\* wg.Done() of a worker that leaves, so it is zero exactly when the last
\* worker has left.
C39_WaitGroupAccounting ==
    /\ [](/\ wgCounter >= 0
          /\ wgCounter = Cardinality({w \in Workers : pc[w] # "done"})
          /\ (wgCounter = 0) = AllDone)
    /\ [][/\ InitStep => wgCounter' = NumWorkers /\ \A w \in Workers : pc'[w] = "select"
          /\ (~InitStep /\ wgCounter' # wgCounter) =>
                /\ wgCounter' = wgCounter - 1
                /\ \E w \in Workers :
                    /\ pc[w] \in {"select", "noWork"} /\ pc'[w] = "done"
                    /\ \A v \in Workers \ {w} : pc'[v] = pc[v]
          /\ \A w \in Workers : pc[w] = "done" /\ ~InitStep => pc'[w] = "done"]_vars

\* the run was cancelled with tasks pending, every worker has called
\* wg.Done() and the counter is zero, main has not yet returned
C39_Witness ==
    /\ restarts = 0
    /\ phase = "running"
    /\ cancelled
    /\ wgCounter = 0
    /\ \A w \in Workers : pc[w] = "done"
    /\ mainList # <<>>

====
